---- MODULE Spec2Model ----
(***************************************************************************)
(* HtmlTemplateLanguageService (src/src/html-template-language-service.ts) *)
(* the bridge between the host language service and the delegated HTML     *)
(* language service, with its single-slot CompletionsCache.                *)
(*                                                                         *)
(* An optional value (x | undefined) is a sequence of length 0 or 1.       *)
(* A text is a sequence of one-character strings.                          *)
(***************************************************************************)
EXTENDS Integers, Sequences, FiniteSets, TLC

VARIABLES
    cache,                  \* CompletionsCache: the four _cached... fields, set together
    htmlLanguageService,    \* _htmlLanguageService: None until first use
    configuration,          \* TsHtmlPluginConfiguration of this instance
    nextList,               \* identity of the next object doComplete returns
    request,                \* the request the host made last
    calls,                  \* delegated-service invocations made while serving it
    result,                 \* the value returned to the host
    completion,             \* the latest completion request and the list it was built from
    previous                \* the list the completion request before it was built from,
                            \* when that request had the same (fileName, position, text)

vars == <<cache, htmlLanguageService, configuration, nextList, request, calls,
          result, completion, previous>>

----------------------------------------------------------------------------
(* Bounds *)
MaxTextLen == 1         \* template text length in the whole bridge
MaxFormatTextLen == 4   \* template text length where formatting and hover are examined alone
MaxAnswerItems == 2     \* items in a completion list where the translators are examined
MaxMisses == 2          \* completion misses in one behaviour

----------------------------------------------------------------------------
(* Values *)
None == <<>>
Some(x) == <<x>>

NL == "\n"
SP == " "
Chars == {NL, SP, "n"}
IsSpace(c) == c \in {NL, SP}

Texts(chars, n) == UNION {[1..k -> chars] : k \in 0..n}
Files == {"a.ts", "b.ts"}
Contexts(files, texts) == [fileName : files, text : texts]

Max(S) == CHOOSE x \in S : \A y \in S : y <= x
Min(S) == CHOOSE x \in S : \A y \in S : x <= y

(* TemplateContext.toPosition / toOffset: line/character over "\n" lines. *)
toPosition(text, offset) ==
    LET breaks == {i \in 1..offset : text[i] = NL}
    IN [line |-> Cardinality(breaks),
        character |-> IF breaks = {} THEN offset ELSE offset - Max(breaks)]

toOffset(text, position) ==
    LET starts == {k \in 0..Len(text) : toPosition(text, k).line = position.line}
    IN IF starts = {} THEN Len(text)
       ELSE IF Min(starts) + position.character > Max(starts) THEN Max(starts)
       ELSE Min(starts) + position.character

PositionsOf(text) == {toPosition(text, k) : k \in 0..Len(text)}

\* a comparison that forgets the character
arePositionsEqualByLine(left, right) == left.line = right.line

arePositionsEqual(left, right) ==
    left.line = right.line /\ left.character = right.character


----------------------------------------------------------------------------
(* Result translators *)

\* vscode.CompletionItemKind
CompletionItemKind ==
    {"Text", "Method", "Function", "Constructor", "Field", "Variable", "Class",
     "Interface", "Module", "Property", "Unit", "Value", "Enum", "Keyword",
     "Snippet", "Color", "File", "Reference", "Folder", "EnumMember",
     "Constant", "Struct", "Event", "Operator", "TypeParameter"}

\* the switch with the Color case left out
translateionCompletionItemKindWithoutColor(kind) ==
    CASE kind = "Method" -> "memberFunctionElement"
      [] kind = "Function" -> "functionElement"
      [] kind = "Constructor" -> "constructorImplementationElement"
      [] kind \in {"Field", "Variable"} -> "variableElement"
      [] kind = "Class" -> "classElement"
      [] kind = "Interface" -> "interfaceElement"
      [] kind = "Module" -> "moduleElement"
      [] kind = "Property" -> "memberVariableElement"
      [] kind \in {"Unit", "Value"} -> "constElement"
      [] kind = "Enum" -> "enumElement"
      [] kind = "Keyword" -> "keyword"
      [] kind = "Reference" -> "alias"
      [] kind = "File" -> "moduleElement"
      [] OTHER -> "unknown"

\* the switch of translateionCompletionItemKind; members of ts.ScriptElementKind
translateionCompletionItemKind(kind) ==
    CASE kind = "Method" -> "memberFunctionElement"
      [] kind = "Function" -> "functionElement"
      [] kind = "Constructor" -> "constructorImplementationElement"
      [] kind \in {"Field", "Variable"} -> "variableElement"
      [] kind = "Class" -> "classElement"
      [] kind = "Interface" -> "interfaceElement"
      [] kind = "Module" -> "moduleElement"
      [] kind = "Property" -> "memberVariableElement"
      [] kind \in {"Unit", "Value"} -> "constElement"
      [] kind = "Enum" -> "enumElement"
      [] kind = "Keyword" -> "keyword"
      [] kind = "Color" -> "constElement"
      [] kind = "Reference" -> "alias"
      [] kind = "File" -> "moduleElement"
      [] OTHER -> "unknown"

\* item.kind ? translateionCompletionItemKind(typescript, item.kind) : unknown
translateKindOf(item) ==
    IF item.kind # None THEN translateionCompletionItemKind(item.kind[1])
    ELSE "unknown"

\* text ? [{ text, kind: 'text' }] : []
toDisplayParts(text) ==
    IF text # None /\ text[1] # "" THEN <<[text |-> text[1], kind |-> "text"]>>
    ELSE <<>>

translateCompetionEntry(item) ==
    [name |-> item.label,
     kindModifiers |-> "",
     kind |-> translateKindOf(item),
     sortText |-> "0"]

translateCompletionItemsToCompletionInfo(items) ==
    [isGlobalCompletion |-> FALSE,
     isMemberCompletion |-> FALSE,
     isNewIdentifierLocation |-> FALSE,
     entries |-> [i \in 1..Len(items.items) |-> translateCompetionEntry(items.items[i])]]

translateCompletionItemsToCompletionEntryDetails(item) ==
    [name |-> item.label,
     kindModifiers |-> "declare",
     kind |-> translateKindOf(item),
     displayParts |-> toDisplayParts(item.detail),
     documentation |-> toDisplayParts(item.documentation),
     tags |-> <<>>]

\* the record getCompletionEntryDetails builds when no item has the label
unknownEntryDetails(name) ==
    [name |-> name,
     kindModifiers |-> "",
     kind |-> "unknown",
     displayParts |-> toDisplayParts(Some(name)),
     documentation |-> <<>>,
     tags |-> <<>>]

\* a search that returns the last item with the label
findLast(items, name) ==
    LET at == {i \in 1..Len(items) : items[i].label = name}
    IN IF at = {} THEN None ELSE Some(items[Max(at)])

\* items.find(x => x.label === name)
find(items, name) ==
    LET at == {i \in 1..Len(items) : items[i].label = name}
    IN IF at = {} THEN None ELSE Some(items[Min(at)])

----------------------------------------------------------------------------
(* What the delegated HTML service may answer *)

Labels == {"div", "span"}
Names == Labels \cup {"p"}

\* completion items of the full bridge: two share a label, one has no kind
PlainItems ==
    {[label |-> "div", kind |-> Some("Property"), detail |-> Some("d"), documentation |-> Some("x")],
     [label |-> "div", kind |-> Some("Value"), detail |-> Some(""), documentation |-> None],
     [label |-> "span", kind |-> None, detail |-> None, documentation |-> Some("y")]}

\* completion items of every kind, and of none
KindItems ==
    {[label |-> "div", kind |-> k, detail |-> None, documentation |-> None] :
        k \in {None} \cup {Some(c) : c \in CompletionItemKind}}

ItemLists(pool, n) == UNION {[1..k -> pool] : k \in 0..n}

\* hover contents: a string, a MarkedString { language, value }, or an array of them
StringContents == [type |-> "string", language |-> "", value |-> "s", parts |-> <<>>]
MarkedContents == [type |-> "MarkedString", language |-> "html", value |-> "m", parts |-> <<>>]
ArrayContents == [type |-> "array", language |-> "", value |-> "",
                  parts |-> <<MarkedContents, StringContents>>]
HoverContents == {StringContents, MarkedContents, ArrayContents}

\* the ranges of a text, as the delegated service reports them
Ranges(text) ==
    {[start |-> toPosition(text, ab[1]), end |-> toPosition(text, ab[2])] :
        ab \in {x \in (0..Len(text)) \X (0..Len(text)) : x[1] <= x[2]}}

\* doHover's answers: null, or contents with or without a range
Hovers(text, contents) ==
    {None} \cup
    {Some([contents |-> c, range |-> r]) :
        c \in contents, r \in {None} \cup {Some(x) : x \in Ranges(text)}}

\* format's answer for a range: one edit that replaces the range
Edits(range) == <<[range |-> range, newText |-> "x"]>>

EditorSettings ==
    {[tabSize |-> 4, convertTabsToSpaces |-> Some(TRUE)],
     [tabSize |-> 2, convertTabsToSpaces |-> None]}

----------------------------------------------------------------------------
(* CompletionsCache *)

\* a lookup that compares the position objects by reference: never equal
getCachedByReference(context, position) == None

getCached(context, position) ==
    IF /\ cache # None
       /\ context.fileName = cache[1]._cachedCompletionsFile
       /\ arePositionsEqual(position, cache[1]._cachedCompletionsPosition)
       /\ context.text = cache[1]._cachedCompletionsContent
    THEN Some(cache[1]._completions)
    ELSE None

updateCached(context, position, completions) ==
    cache' = Some([_cachedCompletionsFile |-> context.fileName,
                   _cachedCompletionsPosition |-> position,
                   _cachedCompletionsContent |-> context.text,
                   _completions |-> completions])

----------------------------------------------------------------------------
(* HtmlTemplateLanguageService *)

\* lineCount: contents.split(/n/g).length + 1
createVirtualDocument(context) ==
    [uri |-> "untitled://embedded.html",
     languageId |-> "html",
     version |-> 1,
     text |-> context.text,
     lineCount |-> Cardinality({i \in 1..Len(context.text) : context.text[i] = "n"}) + 2]

\* the delegated service's invocations, as recorded in calls
parseHTMLDocument(doc) == [fn |-> "parseHTMLDocument", doc |-> doc]
doComplete(doc, position, returned) ==
    [fn |-> "doComplete", doc |-> doc, position |-> position, returned |-> returned]
doHover(doc, position) == [fn |-> "doHover", doc |-> doc, position |-> position]
format(doc, range, options) ==
    [fn |-> "format", doc |-> doc, range |-> range, options |-> options]

\* answers: the item lists doComplete may answer with; every call returns a new object
getCompletionItems(context, position, answers) ==
    LET cached == getCached(context, position)
        doc == createVirtualDocument(context)
    IN /\ IF cached # None
          THEN /\ completion' = Some([context |-> context, position |-> position,
                                      served |-> cached[1]])
               /\ calls' = <<>>
               /\ UNCHANGED <<cache, nextList, htmlLanguageService>>
          ELSE \E first \in answers, second \in answers :
               LET completions == [id |-> nextList, items |-> first]
                   again == [id |-> nextList + 1, items |-> second]
               IN /\ nextList < 2 * MaxMisses
                  /\ htmlLanguageService' = Some("LanguageService")
                  /\ updateCached(context, position, completions)
                  /\ nextList' = nextList + 2
                  /\ calls' = <<parseHTMLDocument(doc),
                                doComplete(doc, position, completions),
                                doComplete(doc, position, again)>>
                  /\ completion' = Some([context |-> context, position |-> position,
                                         served |-> again])
       /\ previous' = IF /\ completion # None
                         /\ completion[1].context = context
                         /\ completion[1].position = position
                      THEN Some(completion[1].served)
                      ELSE None

getCompletionsAtPosition(context, position, answers) ==
    /\ request' = [op |-> "getCompletionsAtPosition", context |-> context,
                   position |-> position]
    /\ getCompletionItems(context, position, answers)
    /\ result' = translateCompletionItemsToCompletionInfo(completion'[1].served)
    /\ UNCHANGED configuration

getCompletionEntryDetails(context, position, name, answers) ==
    /\ request' = [op |-> "getCompletionEntryDetails", context |-> context,
                   position |-> position, name |-> name]
    /\ getCompletionItems(context, position, answers)
    /\ LET item == find(completion'[1].served.items, name)
       IN result' = IF item = None THEN unknownEntryDetails(name)
                    ELSE translateCompletionItemsToCompletionEntryDetails(item[1])
    /\ UNCHANGED configuration

RECURSIVE convertParts(_)
\* convertPart of translateHover, applied to each part of an array in order
convertParts(parts) ==
    IF parts = <<>> THEN <<>>
    ELSE LET head == parts[1]
         IN (IF head.type = "array" THEN convertParts(head.parts)
             ELSE <<[kind |-> "unknown", text |-> head.value]>>)
            \o convertParts(Tail(parts))

\* a translation that always starts the span at the query position
translateHoverAtPosition(hover, position, context) ==
    LET contents == convertParts(<<hover.contents>>)
        start == toOffset(context.text, position)
    IN [kind |-> "unknown",
        kindModifiers |-> "",
        textSpan |-> [start |-> start,
                      length |-> IF hover.range # None
                                 THEN toOffset(context.text, hover.range[1].end) - start
                                 ELSE 1],
        displayParts |-> <<>>,
        documentation |-> contents,
        tags |-> <<>>]

translateHover(hover, position, context) ==
    LET contents == convertParts(<<hover.contents>>)
        start == toOffset(context.text,
                          IF hover.range # None THEN hover.range[1].start ELSE position)
    IN [kind |-> "unknown",
        kindModifiers |-> "",
        textSpan |-> [start |-> start,
                      length |-> IF hover.range # None
                                 THEN toOffset(context.text, hover.range[1].end) - start
                                 ELSE 1],
        displayParts |-> <<>>,
        documentation |-> contents,
        tags |-> <<>>]

\* a hover that drops the cached completions
getQuickInfoAtPositionClearingCache(context, position, hover) ==
    LET doc == createVirtualDocument(context)
    IN /\ request' = [op |-> "getQuickInfoAtPosition", context |-> context,
                      position |-> position, hover |-> hover]
       /\ htmlLanguageService' = Some("LanguageService")
       /\ calls' = <<parseHTMLDocument(doc), doHover(doc, position)>>
       /\ result' = IF hover # None THEN Some(translateHover(hover[1], position, context))
                    ELSE None
       /\ cache' = None
       /\ UNCHANGED <<configuration, nextList, completion, previous>>

\* hover: what doHover answers
getQuickInfoAtPosition(context, position, hover) ==
    LET doc == createVirtualDocument(context)
    IN /\ request' = [op |-> "getQuickInfoAtPosition", context |-> context,
                      position |-> position, hover |-> hover]
       /\ htmlLanguageService' = Some("LanguageService")
       /\ calls' = <<parseHTMLDocument(doc), doHover(doc, position)>>
       /\ result' = IF hover # None THEN Some(translateHover(hover[1], position, context))
                    ELSE None
       /\ UNCHANGED <<cache, configuration, nextList, completion, previous>>

\* the match of /^\n/, which takes no whitespace before the newline
leadingNewlineOnly(text) ==
    IF Len(text) > 0 /\ text[1] = NL THEN Some(1) ELSE None

\* context.text.match(/^\s*\n/): the length of leading[0], when it matches
leading(text) ==
    LET ends == {k \in 1..Len(text) :
                    text[k] = NL /\ \A i \in 1..(k - 1) : IsSpace(text[i])}
    IN IF ends = {} THEN None ELSE Some(Max(ends))

\* context.text.match(/\n\s*$/): the length of trailing[0], when it matches
trailing(text) ==
    LET begins == {k \in 1..Len(text) :
                      text[k] = NL /\ \A i \in (k + 1)..Len(text) : IsSpace(text[i])}
    IN IF begins = {} THEN None ELSE Some(Len(text) - Min(begins) + 1)

toVsRange(context, start, end) ==
    [start |-> toPosition(context.text, start), end |-> toPosition(context.text, end)]

toTsSpan(context, range) ==
    LET editStart == toOffset(context.text, range.start)
        editEnd == toOffset(context.text, range.end)
    IN [start |-> editStart, length |-> editEnd - editStart]

formatOptions(settings) ==
    [tabSize |-> settings.tabSize,
     insertSpaces |-> (settings.convertTabsToSpaces = Some(TRUE)),
     wrapLineLength |-> 120,
     unformatted |-> "",
     contentUnformatted |-> "pre,code,textarea",
     indentInnerHtml |-> FALSE,
     preserveNewLines |-> TRUE,
     maxPreserveNewLines |-> None,
     indentHandlebars |-> FALSE,
     endWithNewline |-> FALSE,
     extraLiners |-> "head, body, /html",
     wrapAttributes |-> "auto"]

\* the start and end of the range after the leading and trailing adjustment
adjustedStart(context, start) ==
    IF leading(context.text) # None THEN start + leading(context.text)[1] ELSE start

adjustedEnd(context, end) ==
    IF trailing(context.text) # None THEN end - trailing(context.text)[1] ELSE end

\* the test end < start, which lets an empty range through
isInvertedRange(start, end) == end < start

\* if (end <= start) return []
isEmptyRange(start, end) == end <= start

getFormattingEditsForRange(context, start, end, settings) ==
    LET doc == createVirtualDocument(context)
        s == adjustedStart(context, start)
        e == adjustedEnd(context, end)
        range == toVsRange(context, s, e)
    IN /\ request' = [op |-> "getFormattingEditsForRange", context |-> context,
                      start |-> start, end |-> end, settings |-> settings]
       /\ IF ~configuration.format.enabled
          THEN /\ result' = <<>>
               /\ calls' = <<>>
               /\ UNCHANGED htmlLanguageService
          ELSE /\ htmlLanguageService' = Some("LanguageService")
               /\ IF isEmptyRange(s, e)
                  THEN /\ result' = <<>>
                       /\ calls' = <<parseHTMLDocument(doc)>>
                  ELSE LET edits == Edits(range)
                       IN /\ calls' = <<parseHTMLDocument(doc),
                                        format(doc, range, formatOptions(settings))>>
                          /\ result' = [i \in 1..Len(edits) |->
                                           [span |-> toTsSpan(context, edits[i].range),
                                            newText |-> edits[i].newText]]
       /\ UNCHANGED <<cache, configuration, nextList, completion, previous>>

----------------------------------------------------------------------------
(* Specifications *)

Init ==
    /\ cache = None
    /\ htmlLanguageService = None
    /\ configuration \in {[format |-> [enabled |-> b]] : b \in BOOLEAN}
    /\ nextList = 0
    /\ request = [op |-> "none"]
    /\ calls = <<>>
    /\ result = None
    /\ completion = None
    /\ previous = None

\* the whole bridge: completion requests over two files and texts of one or more
\* lines, with hover and formatting requests for one template between them
CacheTexts == Texts({"n"}, MaxTextLen) \cup Texts({NL}, MaxTextLen)
CacheAnswers == {<<>>, <<[label |-> "div", kind |-> Some("Property"),
                         detail |-> Some("d"), documentation |-> None]>>}
OtherContext == [fileName |-> "a.ts", text |-> <<"n">>]

Next ==
    \/ \E context \in Contexts(Files, CacheTexts) :
       \E position \in PositionsOf(context.text) :
          \/ getCompletionsAtPosition(context, position, CacheAnswers)
          \/ \E name \in {"div", "p"} :
                getCompletionEntryDetails(context, position, name, CacheAnswers)
    \/ \E position \in PositionsOf(OtherContext.text) :
       \E hover \in {None, Some([contents |-> StringContents, range |-> None])} :
          getQuickInfoAtPosition(OtherContext, position, hover)
    \/ \E start \in 0..Len(OtherContext.text), end \in 0..Len(OtherContext.text) :
          getFormattingEditsForRange(OtherContext, start, end,
                                     [tabSize |-> 4, convertTabsToSpaces |-> Some(TRUE)])

Spec == Init /\ [][Next]_vars

\* completion requests for one template and position, over completion lists of every shape
ItemContext == [fileName |-> "a.ts", text |-> <<>>]
ItemAnswers == ItemLists(PlainItems, MaxAnswerItems) \cup {<<item>> : item \in KindItems}

NextItems ==
    \/ getCompletionsAtPosition(ItemContext, toPosition(ItemContext.text, 0), ItemAnswers)
    \/ \E name \in Names :
          getCompletionEntryDetails(ItemContext, toPosition(ItemContext.text, 0), name,
                                    ItemAnswers)

SpecItems == Init /\ [][NextItems]_vars

\* the first hover or formatting request of a bridge, over every text
FormatTexts == Texts(Chars, MaxFormatTextLen)

NextFormat ==
    \/ /\ request.op = "none"
       /\ \E context \in Contexts({"a.ts"}, FormatTexts) :
          \E position \in PositionsOf(context.text) :
          \E hover \in Hovers(context.text, HoverContents) :
             getQuickInfoAtPosition(context, position, hover)
    \/ /\ request.op = "none"
       /\ \E context \in Contexts({"a.ts"}, FormatTexts) :
          \E start \in 0..Len(context.text), end \in 0..Len(context.text) :
          \E settings \in EditorSettings :
             getFormattingEditsForRange(context, start, end, settings)

SpecFormat == Init /\ [][NextFormat]_vars

----------------------------------------------------------------------------
(* Properties *)

CompletionOps == {"getCompletionsAtPosition", "getCompletionEntryDetails"}
IsCompletion(r) == r.op \in CompletionOps
Invoked(cs, fn) == {i \in 1..Len(cs) : cs[i].fn = fn}

\* C1: a completion request with the same (fileName, position, text) as the
\* completion request before it invokes no doComplete: it is answered from the cache.
C1_SecondRequestNotDelegated ==
    (IsCompletion(request) /\ previous # None) => Invoked(calls, "doComplete") = {}

C1_Witness ==
    /\ IsCompletion(request)
    /\ previous # None
    /\ nextList > 0
    /\ calls = <<>>

\* C2: a completion request with the same (fileName, position, text) as the
\* completion request before it is built from the very list object that request
\* was built from.
C2_SameListServedTwice ==
    (IsCompletion(request) /\ previous # None) => completion[1].served = previous[1]

\* C3: a completion request is served from the cache only if its fileName,
\* position and text equal the stored entry's; any other request invokes doComplete
\* for its own document and position and does not return the stored list.
C3_Step ==
    LET ctx == request'.context
        pos == request'.position
        equal == /\ cache # None
                 /\ ctx.fileName = cache[1]._cachedCompletionsFile
                 /\ pos.line = cache[1]._cachedCompletionsPosition.line
                 /\ pos.character = cache[1]._cachedCompletionsPosition.character
                 /\ ctx.text = cache[1]._cachedCompletionsContent
    IN IsCompletion(request') =>
         /\ (Invoked(calls', "doComplete") = {}) => equal
         /\ (cache # None /\ completion'[1].served = cache[1]._completions) => equal
         /\ ~equal =>
              /\ Invoked(calls', "doComplete") # {}
              /\ \A i \in Invoked(calls', "doComplete") :
                    /\ calls'[i].doc.text = ctx.text
                    /\ calls'[i].position = pos
              /\ \E i \in Invoked(calls', "doComplete") :
                    calls'[i].returned = completion'[1].served

\* C3, over every step of the bridge
C3_HitOnlyOnEqualKey == [][C3_Step]_vars

C3_Witness ==
    /\ IsCompletion(request)
    /\ nextList >= 4
    /\ Invoked(calls, "doComplete") # {}

\* C4: getCompletionEntryDetails for a name no item of the current list is labelled
\* with returns the name with kind unknown and no documentation; otherwise it
\* returns the translation of the first item labelled with the name.
C4_EntryDetails ==
    request.op = "getCompletionEntryDetails" =>
        LET items == completion[1].served.items
            labelled == {i \in 1..Len(items) : items[i].label = request.name}
        IN IF labelled = {}
           THEN /\ result.name = request.name
                /\ result.kind = "unknown"
                /\ result.documentation = <<>>
           ELSE \E i \in labelled :
                   /\ \A j \in labelled : i <= j
                   /\ result = translateCompletionItemsToCompletionEntryDetails(items[i])

C4_Witness ==
    /\ request.op = "getCompletionEntryDetails"
    /\ completion[1].served.items # <<>>
    /\ \A i \in 1..Len(completion[1].served.items) :
          completion[1].served.items[i].label # request.name
    /\ result.kind = "unknown"

RECURSIVE ScanLeading(_, _, _)
ScanLeading(text, i, newline) ==
    IF i > Len(text) \/ ~IsSpace(text[i]) THEN newline
    ELSE ScanLeading(text, i + 1, IF text[i] = NL THEN i ELSE newline)

RECURSIVE ScanTrailing(_, _, _)
ScanTrailing(text, i, newline) ==
    IF i < 1 \/ ~IsSpace(text[i]) THEN newline
    ELSE ScanTrailing(text, i - 1, IF text[i] = NL THEN i ELSE newline)

\* L: the length of the whitespace-then-newline run at the beginning of the text
LeadingRun(text) == ScanLeading(text, 1, 0)

\* T: the length of the newline-then-whitespace run at the end of the text
TrailingRun(text) ==
    LET first == ScanTrailing(text, Len(text), 0)
    IN IF first = 0 THEN 0 ELSE Len(text) - first + 1

IsFormat(r) == r.op = "getFormattingEditsForRange"
InBounds(r) == 0 <= r.start /\ r.start <= r.end /\ r.end <= Len(r.context.text)

\* the offsets of the range a format invocation was given
FormatStart(call) == toOffset(call.doc.text, call.range.start)
FormatEnd(call) == toOffset(call.doc.text, call.range.end)

\* C5: with formatting disabled, or with an adjusted range whose end <= start,
\* getFormattingEditsForRange returns no edit and does not invoke format; with
\* formatting disabled it invokes nothing of the delegated service.
C5_NoEditsWhenDisabledOrEmpty ==
    IsFormat(request) =>
        LET text == request.context.text
            disabled == ~configuration.format.enabled
            empty == request.end - TrailingRun(text) <= request.start + LeadingRun(text)
        IN /\ (disabled \/ empty) => (result = <<>> /\ Invoked(calls, "format") = {})
           /\ disabled => calls = <<>>

C5_Witness ==
    /\ IsFormat(request)
    /\ configuration.format.enabled
    /\ request.start < request.end
    /\ request.end - TrailingRun(request.context.text)
          = request.start + LeadingRun(request.context.text)
    /\ result = <<>>

\* C6: with formatting enabled and 0 <= start <= end <= length(text), the range
\* [s, e) given to format satisfies L <= s < e <= length(text) - T, and for
\* start = 0, end = length(text) it is exactly [L, length(text) - T).
C6_FormatRangeInsideRuns ==
    (IsFormat(request) /\ configuration.format.enabled /\ InBounds(request)) =>
        LET text == request.context.text
        IN \A i \in Invoked(calls, "format") :
              /\ LeadingRun(text) <= FormatStart(calls[i])
              /\ FormatStart(calls[i]) < FormatEnd(calls[i])
              /\ FormatEnd(calls[i]) <= Len(text) - TrailingRun(text)
              /\ (request.start = 0 /\ request.end = Len(text)) =>
                    /\ FormatStart(calls[i]) = LeadingRun(text)
                    /\ FormatEnd(calls[i]) = Len(text) - TrailingRun(text)

C6_Witness ==
    /\ IsFormat(request)
    /\ request.start = 0
    /\ request.end = Len(request.context.text)
    /\ LeadingRun(request.context.text) > 1
    /\ TrailingRun(request.context.text) > 0
    /\ Invoked(calls, "format") # {}

\* C7: when doHover answers, the span of getQuickInfoAtPosition's result starts at
\* toOffset(range start) with length toOffset(range end) - start if the hover has a
\* range, and at toOffset(query position) with length 1 if it has none; when
\* doHover answers nothing the result is absent.
C7_HoverSpan ==
    request.op = "getQuickInfoAtPosition" =>
        LET text == request.context.text
            hover == request.hover
        IN IF hover = None THEN result = None
           ELSE /\ result # None
                /\ IF hover[1].range # None
                   THEN /\ result[1].textSpan.start = toOffset(text, hover[1].range[1].start)
                        /\ result[1].textSpan.length =
                              toOffset(text, hover[1].range[1].end)
                                  - toOffset(text, hover[1].range[1].start)
                   ELSE /\ result[1].textSpan.start = toOffset(text, request.position)
                        /\ result[1].textSpan.length = 1

C7_Witness ==
    /\ request.op = "getQuickInfoAtPosition"
    /\ request.hover # None
    /\ request.hover[1].range = None
    /\ toOffset(request.context.text, request.position) > 1
    /\ result # None
    /\ result[1].textSpan.length = 1

\* the documented table of host kinds
DocumentedKind(kind) ==
    CASE kind = "Method" -> "memberFunctionElement"
      [] kind = "Function" -> "functionElement"
      [] kind = "Constructor" -> "constructorImplementationElement"
      [] kind = "Field" -> "variableElement"
      [] kind = "Variable" -> "variableElement"
      [] kind = "Class" -> "classElement"
      [] kind = "Interface" -> "interfaceElement"
      [] kind = "Module" -> "moduleElement"
      [] kind = "Property" -> "memberVariableElement"
      [] kind = "Unit" -> "constElement"
      [] kind = "Value" -> "constElement"
      [] kind = "Enum" -> "enumElement"
      [] kind = "Keyword" -> "keyword"
      [] kind = "Color" -> "constElement"
      [] kind = "Reference" -> "alias"
      [] kind = "File" -> "moduleElement"
      [] OTHER -> "unknown"

DocumentedKindOf(item) ==
    IF item.kind = None THEN "unknown" ELSE DocumentedKind(item.kind[1])

\* C8: every completion item's kind is translated to its documented host kind, and
\* every unlisted kind and every item without a kind to unknown.
C8_KindTable ==
    /\ request.op = "getCompletionsAtPosition" =>
          LET items == completion[1].served.items
          IN /\ Len(result.entries) = Len(items)
             /\ \A i \in 1..Len(items) : result.entries[i].kind = DocumentedKindOf(items[i])
    /\ request.op = "getCompletionEntryDetails" =>
          LET items == completion[1].served.items
              labelled == {i \in 1..Len(items) : items[i].label = request.name}
          IN result.kind = IF labelled = {} THEN "unknown"
                           ELSE DocumentedKindOf(items[Min(labelled)])

C8_Witness ==
    /\ request.op = "getCompletionsAtPosition"
    /\ Len(result.entries) = 1
    /\ completion[1].served.items[1].kind = Some("Color")
    /\ result.entries[1].kind = "constElement"

\* C9: with formatting enabled and 0 <= start <= end <= length(text), every offset
\* of [start, end) outside the leading and the trailing run lies in the range given
\* to format.
C9_OnlyRunsRemoved ==
    (IsFormat(request) /\ configuration.format.enabled /\ InBounds(request)) =>
        LET text == request.context.text
        IN \A k \in request.start..(request.end - 1) :
              (k >= LeadingRun(text) /\ k < Len(text) - TrailingRun(text)) =>
                  \E i \in Invoked(calls, "format") :
                     FormatStart(calls[i]) <= k /\ k < FormatEnd(calls[i])

\* C10: hover and formatting requests and completion cache hits leave the cache
\* unchanged; the cache changes only on a completion miss, to that request's entry;
\* a completion request with the key of the completion request before it is a hit
\* whatever hover and formatting requests came between.
C10_Step ==
    /\ request'.op \in {"getQuickInfoAtPosition", "getFormattingEditsForRange"} =>
          cache' = cache
    /\ (IsCompletion(request') /\ Invoked(calls', "doComplete") = {}) => cache' = cache
    /\ cache' # cache =>
          /\ IsCompletion(request')
          /\ Invoked(calls', "doComplete") # {}
          /\ cache'[1]._cachedCompletionsFile = request'.context.fileName
          /\ cache'[1]._cachedCompletionsPosition = request'.position
          /\ cache'[1]._cachedCompletionsContent = request'.context.text
          /\ \E i \in Invoked(calls', "doComplete") : cache'[1]._completions = calls'[i].returned
    /\ (/\ IsCompletion(request')
        /\ completion # None
        /\ completion[1].context = request'.context
        /\ completion[1].position = request'.position) =>
          Invoked(calls', "doComplete") = {}

\* C10, over every step of the bridge
C10_CacheFrame == [][C10_Step]_vars

C10_Witness ==
    /\ request.op \in {"getQuickInfoAtPosition", "getFormattingEditsForRange"}
    /\ cache # None
    /\ completion # None

====
